---- MODULE Spec2Model ----
(***************************************************************************)
(* A model of smallhttp: the buffered read primitives of the Channel       *)
(* trait (src/src/traits.rs), the URL parser (src/src/url.rs) and the      *)
(* HTTP client state machine (src/src/lib.rs).                             *)
(*                                                                         *)
(* Strings and byte slices are sequences of bytes; a byte is written as a  *)
(* one-character string, CR, LF and XFF standing for 0x0D, 0x0A and 0xFF.  *)
(***************************************************************************)
EXTENDS Integers, Sequences, FiniteSets, TLC

VARIABLES
    state,            \* Client.state
    method,           \* Client.method
    url,              \* Client.url
    headers_flushed,  \* Client.headers_flushed
    chan,             \* Client.channel, with the log of the calls made on it
    last,             \* the last public call on the client and how it ended
    resp,             \* the Response the last successful response() returned
    rd,               \* a StringChannel under the read primitives
    pu,               \* an input of parse_url and its result
    hv                \* an HttpHeader, its wire token and the header read back

vars == <<state, method, url, headers_flushed, chan, last, resp, rd, pu, hv>>

clientVars == <<state, method, url, headers_flushed, chan, last, resp>>

-----------------------------------------------------------------------------
(* Bytes and byte strings                                                  *)

CR == "\r"
LF == "\n"
SP == " "
XFF == "xFF"

\* A recv that returns an error other than EndOfStream: the Channel trait lets
\* recv fail with any ChannelError (a StringChannel never does).
RecvErr == "!"
RecvError == "SomethingWentWrong"

CRLF == <<CR, LF>>
SPACE == <<SP>>

\* str::from_utf8 on the bytes of the model: 0xFF never occurs in UTF-8, the
\* other bytes of the model are ASCII.
Utf8Ok(bytes) == \A k \in 1..Len(bytes) : bytes[k] # XFF

HasByte(input, delim) == \E k \in 1..Len(input) : input[k] = delim

\* The 1-based index of the first occurrence of delim in input.
FirstIdx(input, delim) ==
    CHOOSE k \in 1..Len(input) :
        /\ input[k] = delim
        /\ \A j \in 1..(k - 1) : input[j] # delim

-----------------------------------------------------------------------------
(* traits.rs: StringChannel::recv one byte at a time, and the default      *)
(* methods read_to_end and read_string_until layered on it.  A channel is  *)
(* its data and the position pos of the next byte (0-based, as in Rust).   *)

RdRes(ok, err, str, pos, recvs) ==
    [ok |-> ok, err |-> err, str |-> str, pos |-> pos, recvs |-> recvs]

RECURSIVE ReadToEndLoop(_, _, _, _, _)
ReadToEndLoop(data, pos, max_len, buf, recvs) ==
    IF Len(buf) < max_len
    THEN IF pos >= Len(data)
         THEN RdRes(TRUE, "", buf, pos, recvs + 1)          \* EndOfStream -> Ok(i)
         ELSE IF data[pos + 1] = RecvErr
         THEN RdRes(FALSE, RecvError, <<>>, pos + 1, recvs + 1)
         ELSE ReadToEndLoop(data, pos + 1, max_len,
                            Append(buf, data[pos + 1]), recvs + 1)
    ELSE RdRes(TRUE, "", buf, pos, recvs)

\* A mutant of ReadToEnd: end-of-stream is returned as the error it is.
ReadToEndEofErr(data, pos, max_len) ==
    LET r == ReadToEndLoop(data, pos, max_len, <<>>, 0) IN
    IF r.ok /\ Len(r.str) < max_len
    THEN RdRes(FALSE, "EndOfStream", <<>>, r.pos, r.recvs)
    ELSE r

\* read_to_end: str is data[0..n] of the caller's buffer, n = Len(str).
ReadToEnd(data, pos, max_len) == ReadToEndLoop(data, pos, max_len, <<>>, 0)

RECURSIVE ReadStringUntilLoopEof(_, _, _, _, _, _, _, _)
\* A mutant of ReadStringUntilLoop: end-of-stream ends the string, as it does in
\* read_to_end.
ReadStringUntilLoopEof(data, pos, max_len, delim, buf, delim_pos, in_delim, recvs) ==
    IF Len(buf) < max_len
    THEN IF pos >= Len(data)
         THEN RdRes(TRUE, "", buf, pos, recvs + 1)
         ELSE IF data[pos + 1] = RecvErr
         THEN RdRes(FALSE, RecvError, <<>>, pos + 1, recvs + 1)
         ELSE LET value == data[pos + 1] IN
              IF in_delim /\ delim[delim_pos + 1] # value
              THEN RdRes(FALSE, "InvalidDelimiterChar", <<>>, pos + 1, recvs + 1)
              ELSE IF delim[delim_pos + 1] = value
                   THEN IF delim_pos + 1 >= Len(delim)
                        THEN IF Utf8Ok(buf)
                             THEN RdRes(TRUE, "", buf, pos + 1, recvs + 1)
                             ELSE RdRes(FALSE, "InvalidString", <<>>, pos + 1, recvs + 1)
                        ELSE ReadStringUntilLoopEof(data, pos + 1, max_len, delim, buf,
                                                    delim_pos + 1, TRUE, recvs + 1)
                   ELSE ReadStringUntilLoopEof(data, pos + 1, max_len, delim,
                                               Append(buf, value), delim_pos, in_delim,
                                               recvs + 1)
    ELSE RdRes(FALSE, "BufferFull", <<>>, pos, recvs)

RECURSIVE ReadStringUntilLoop(_, _, _, _, _, _, _, _)
ReadStringUntilLoop(data, pos, max_len, delim, buf, delim_pos, in_delim, recvs) ==
    IF Len(buf) < max_len
    THEN IF pos >= Len(data)
         THEN RdRes(FALSE, "EndOfStream", <<>>, pos, recvs + 1)
         ELSE IF data[pos + 1] = RecvErr
         THEN RdRes(FALSE, RecvError, <<>>, pos + 1, recvs + 1)
         ELSE LET value == data[pos + 1] IN
              IF in_delim /\ delim[delim_pos + 1] # value
              THEN RdRes(FALSE, "InvalidDelimiterChar", <<>>, pos + 1, recvs + 1)
              ELSE IF delim[delim_pos + 1] = value
                   THEN IF delim_pos + 1 >= Len(delim)
                        THEN IF Utf8Ok(buf)
                             THEN RdRes(TRUE, "", buf, pos + 1, recvs + 1)
                             ELSE RdRes(FALSE, "InvalidString", <<>>, pos + 1, recvs + 1)
                        ELSE ReadStringUntilLoop(data, pos + 1, max_len, delim, buf,
                                                 delim_pos + 1, TRUE, recvs + 1)
                   ELSE ReadStringUntilLoop(data, pos + 1, max_len, delim,
                                            Append(buf, value), delim_pos, in_delim,
                                            recvs + 1)
    ELSE RdRes(FALSE, "BufferFull", <<>>, pos, recvs)

\* A mutant of ReadStringUntil: the byte after the delimiter is consumed too.
ReadStringUntilOverRead(data, pos, max_len, delim) ==
    LET r == ReadStringUntilLoop(data, pos, max_len, delim, <<>>, 0, FALSE, 0) IN
    IF r.ok /\ r.pos < Len(data)
    THEN [r EXCEPT !.pos = r.pos + 1, !.recvs = r.recvs + 1]
    ELSE r

\* A mutant of ReadStringUntil: a broken delimiter is handed back as data.
ReadStringUntilReplay(data, pos, max_len, delim) ==
    LET r == ReadStringUntilLoop(data, pos, max_len, delim, <<>>, 0, FALSE, 0) IN
    IF r.err = "InvalidDelimiterChar"
    THEN RdRes(TRUE, "", SubSeq(data, pos + 1, r.pos), r.pos, r.recvs)
    ELSE r

\* A mutant of ReadStringUntil: the loop runs while i <= max_len.
ReadStringUntilOneMore(data, pos, max_len, delim) ==
    ReadStringUntilLoop(data, pos, max_len + 1, delim, <<>>, 0, FALSE, 0)

\* read_string_until with a buffer of max_len bytes.
ReadStringUntil(data, pos, max_len, delim) ==
    ReadStringUntilLoop(data, pos, max_len, delim, <<>>, 0, FALSE, 0)

-----------------------------------------------------------------------------
(* The read primitives on a StringChannel: the channel's data, the buffer  *)
(* size and the delimiter are drawn from bounded sets, then reads follow   *)
(* one another on the same channel.                                        *)

MaxData == 4
MaxCap == 3
MaxReads == 2

RdBytes == {"a", CR, LF, SP, XFF, RecvErr}

RdDelims == {CRLF, SPACE}

RdData == UNION {[1..n -> RdBytes] : n \in 0..MaxData}

NoRead == [op |-> "none", ok |-> TRUE, err |-> "", str |-> <<>>, pos |-> 0, recvs |-> 0]

RdInit ==
    \E d \in RdData, c \in 1..MaxCap, dl \in RdDelims :
        rd = [data |-> d, cap |-> c, delim |-> dl, pos0 |-> 0, pos |-> 0,
              n |-> 0, out |-> NoRead]

RdIdle == [data |-> <<>>, cap |-> 0, delim |-> CRLF, pos0 |-> 0, pos |-> 0,
           n |-> 0, out |-> NoRead]

RdStep(op, r) ==
    rd' = [rd EXCEPT !.pos0 = rd.pos, !.pos = r.pos, !.n = rd.n + 1,
                     !.out = [op |-> op, ok |-> r.ok, err |-> r.err, str |-> r.str,
                              pos |-> r.pos, recvs |-> r.recvs]]

RdUntil ==
    /\ rd.n < MaxReads
    /\ RdStep("read_string_until", ReadStringUntil(rd.data, rd.pos, rd.cap, rd.delim))
    /\ UNCHANGED <<clientVars, pu, hv>>

RdToEnd ==
    /\ rd.n < MaxReads
    /\ RdStep("read_to_end", ReadToEnd(rd.data, rd.pos, rd.cap))
    /\ UNCHANGED <<clientVars, pu, hv>>

-----------------------------------------------------------------------------
(* url.rs: the URL parser.  The input is a &str, hence valid UTF-8, and    *)
(* every cut is made at an ASCII byte, so the str::from_utf8 calls of      *)
(* parse_url cannot fail and are not modelled.                             *)

Digits == {"0", "1", "2", "3", "4", "5", "6", "7", "8", "9"}

DigitVal(c) ==
    CASE c = "0" -> 0 [] c = "1" -> 1 [] c = "2" -> 2 [] c = "3" -> 3 [] c = "4" -> 4
      [] c = "5" -> 5 [] c = "6" -> 6 [] c = "7" -> 7 [] c = "8" -> 8 [] c = "9" -> 9

U16Max == 65535

RECURSIVE ParseDigits(_, _)
\* The checked accumulation of from_str_radix: None (-1) on a byte that is no
\* digit and on overflow of the u16.
ParseDigits(digits, acc) ==
    IF digits = <<>> THEN acc
    ELSE IF Head(digits) \notin Digits THEN -1
    ELSE LET v == acc * 10 + DigitVal(Head(digits)) IN
         IF v > U16Max THEN -1 ELSE ParseDigits(Tail(digits), v)

RECURSIVE ParseDigitsWrapping(_, _)
ParseDigitsWrapping(digits, acc) ==
    IF digits = <<>> THEN acc
    ELSE IF Head(digits) \notin Digits THEN -1
    ELSE ParseDigitsWrapping(Tail(digits), (acc * 10 + DigitVal(Head(digits))) % (U16Max + 1))

\* A mutant of ParseU16: the accumulation wraps around instead of failing.
ParseU16Wrapping(src) ==
    IF src = <<>> THEN [ok |-> FALSE, v |-> 0]
    ELSE LET digits == IF Head(src) = "+" THEN Tail(src) ELSE src IN
         IF digits = <<>> THEN [ok |-> FALSE, v |-> 0]
         ELSE LET v == ParseDigitsWrapping(digits, 0) IN
              IF v < 0 THEN [ok |-> FALSE, v |-> 0] ELSE [ok |-> TRUE, v |-> v]

\* A mutant of ParseU16: a value too large is cut to its low 16 bits, and an
\* empty token is port 0.
ParseU16Truncating(src) ==
    LET digits == IF src # <<>> /\ Head(src) = "+" THEN Tail(src) ELSE src
        v == ParseDigitsWrapping(digits, 0)
    IN  IF v < 0 THEN [ok |-> FALSE, v |-> 0] ELSE [ok |-> TRUE, v |-> v]

\* u16::from_str: an optional leading '+', then at least one decimal digit.
ParseU16(src) ==
    IF src = <<>> THEN [ok |-> FALSE, v |-> 0]
    ELSE LET digits == IF Head(src) = "+" THEN Tail(src) ELSE src IN
         IF digits = <<>> THEN [ok |-> FALSE, v |-> 0]
         ELSE LET v == ParseDigits(digits, 0) IN
              IF v < 0 THEN [ok |-> FALSE, v |-> 0] ELSE [ok |-> TRUE, v |-> v]

Cut(ok, rest, head) == [ok |-> ok, rest |-> rest, head |-> head]

until_and_consume(input, delim) ==
    IF HasByte(input, delim)
    THEN LET k == FirstIdx(input, delim) IN
         Cut(TRUE, SubSeq(input, k + 1, Len(input)), SubSeq(input, 1, k - 1))
    ELSE Cut(FALSE, <<>>, <<>>)

until(input, delim) ==
    IF HasByte(input, delim)
    THEN LET k == FirstIdx(input, delim) IN
         Cut(TRUE, SubSeq(input, k, Len(input)), SubSeq(input, 1, k - 1))
    ELSE Cut(FALSE, <<>>, <<>>)

\* first_pos_of: Some(i) is i >= 0, None is -1.
first_pos_of(input, delim) ==
    IF HasByte(input, delim) THEN FirstIdx(input, delim) - 1 ELSE -1

HTTP == <<"h", "t", "t", "p">>
HTTPS == <<"h", "t", "t", "p", "s">>

DefaultPort(scheme) ==
    IF scheme = HTTP THEN 80 ELSE IF scheme = HTTPS THEN 443 ELSE 0

\* "We remove the # part if any."
PathOf(rest) ==
    IF first_pos_of(rest, "#") >= 0 THEN until_and_consume(rest, "#").head ELSE rest

UrlErr(e) ==
    [ok |-> FALSE, err |-> e, scheme |-> <<>>, host |-> <<>>, port |-> 0, path |-> <<>>]

UrlOk(scheme, host, port, path) ==
    [ok |-> TRUE, err |-> "", scheme |-> scheme, host |-> host, port |-> port,
     path |-> path]

\* The part of parse_url after the scheme and the two '/' are consumed.
ParseAuthority(scheme, tail) ==
    LET c_pos == first_pos_of(tail, ":")
        s_pos == first_pos_of(tail, "/")
    IN
    IF c_pos >= 0 /\ s_pos >= 0
    THEN IF c_pos < s_pos
         THEN LET a == until_and_consume(tail, ":")
                  b == until(a.rest, "/")
                  port == ParseU16(b.head)
              IN IF ~port.ok THEN UrlErr("ParseIntError")
                 ELSE UrlOk(scheme, a.head, port.v, PathOf(b.rest))
         ELSE LET b == until(tail, "/")
              IN UrlOk(scheme, b.head, DefaultPort(scheme), PathOf(b.rest))
    ELSE IF s_pos < 0
    THEN IF c_pos >= 0
         THEN LET a == until_and_consume(tail, ":")
                  port == ParseU16(a.rest)
              IN IF ~port.ok THEN UrlErr("ParseIntError")
                 ELSE UrlOk(scheme, a.head, port.v, <<"/">>)
         ELSE UrlOk(scheme, tail, DefaultPort(scheme), <<"/">>)
    ELSE LET b == until(tail, "/")
         IN UrlOk(scheme, b.head, DefaultPort(scheme), PathOf(b.rest))

parse_url(u) ==
    LET r1 == until_and_consume(u, ":") IN
    IF ~r1.ok THEN UrlErr("DelimiterNotFound")
    ELSE LET r2 == until_and_consume(r1.rest, "/") IN
    IF ~r2.ok THEN UrlErr("DelimiterNotFound")
    ELSE LET r3 == until_and_consume(r2.rest, "/") IN
    IF ~r3.ok THEN UrlErr("DelimiterNotFound")
    ELSE ParseAuthority(r1.head, r3.rest)

-----------------------------------------------------------------------------
(* parse_url on the well-formed URLs scheme://host[:port][/path][#frag]:   *)
(* the URL is built from components drawn from bounded sets, each of port, *)
(* path and fragment present (a one-element sequence) or absent (<<>>).    *)

Opt(S) == {<<>>} \cup {<<x>> : x \in S}

FTP == <<"f", "t", "p">>

UrlSchemes == {HTTP, HTTPS, FTP}
UrlHosts == {<<"h">>, <<"a", ".", "b">>}
UrlPorts == {<<"8">>, <<"8", "0", "8", "0">>}
UrlPaths == {<<"/">>, <<"/", "p">>, <<"/", "p", ":", "q">>, <<"/", "p", "/", "q">>}
UrlFrags == {<<>>, <<"f">>}

BuildUrl(scheme, host, port, path, frag) ==
    scheme \o <<":", "/", "/">> \o host
        \o (IF port = <<>> THEN <<>> ELSE <<":">> \o port[1])
        \o (IF path = <<>> THEN <<>> ELSE path[1])
        \o (IF frag = <<>> THEN <<>> ELSE <<"#">> \o frag[1])

NoParse == [done |-> FALSE, r |-> UrlErr("")]

PuInit ==
    \E s \in UrlSchemes, h \in UrlHosts, p \in Opt(UrlPorts), pa \in Opt(UrlPaths),
       f \in Opt(UrlFrags) :
        pu = [scheme |-> s, host |-> h, port |-> p, path |-> pa, frag |-> f,
              input |-> BuildUrl(s, h, p, pa, f), out |-> NoParse]

PuIdle == [scheme |-> <<>>, host |-> <<>>, port |-> <<>>, path |-> <<>>, frag |-> <<>>,
           input |-> <<>>, out |-> NoParse]

(* parse_url on URLs with any port token: scheme://host[:token][/path].    *)

PortTokens == {<<"0">>, <<"8">>, <<"+", "8">>, <<"0", "0", "8", "0">>,
               <<"6", "5", "5", "3", "5">>, <<"6", "5", "5", "3", "6">>,
               <<"7", "0", "0", "0", "0">>, <<"1", "3", "1", "0", "7", "9">>,
               <<"8", "x">>, <<"x">>, <<"-", "1">>, <<>>}

PuInitPort ==
    \E s \in UrlSchemes \cup {<<>>}, h \in UrlHosts, p \in Opt(PortTokens),
       pa \in Opt({<<"/", "p">>, <<"/", "p", ":", "9">>}) :
        pu = [scheme |-> s, host |-> h, port |-> p, path |-> pa, frag |-> <<>>,
              input |-> BuildUrl(s, h, p, pa, <<>>), out |-> NoParse]

(* parse_url on any input: every string of at most MaxUrl bytes over a    *)
(* small alphabet that holds the two delimiters of the scheme.             *)

MaxUrl == 6

RawBytes == {"s", "h", ":", "/"}

RawUrls == UNION {[1..n -> RawBytes] : n \in 0..MaxUrl}

PuInitRaw ==
    \E u \in RawUrls :
        pu = [scheme |-> <<>>, host |-> <<>>, port |-> <<>>, path |-> <<>>,
              frag |-> <<>>, input |-> u, out |-> NoParse]

PuParse ==
    /\ ~pu.out.done
    /\ pu' = [pu EXCEPT !.out = [done |-> TRUE, r |-> parse_url(pu.input)]]
    /\ UNCHANGED <<clientVars, rd, hv>>

-----------------------------------------------------------------------------
(* lib.rs: the header vocabulary.  An HttpHeader is a record: tag is the   *)
(* variant, name the String an Other holds.                                *)

Hdr(tag) == [tag |-> tag, name |-> <<>>]
Other(name) == [tag |-> "Other", name |-> name]

TokConnection == <<"C", "o", "n", "n", "e", "c", "t", "i", "o", "n", ":">>
TokContentLength == <<"C", "o", "n", "t", "e", "n", "t", "-", "L", "e", "n", "g", "t", "h", ":">>
TokContentType == <<"C", "o", "n", "t", "e", "n", "t", "-", "T", "y", "p", "e", ":">>
TokDate == <<"D", "a", "t", "e", ":">>
TokEtag == <<"E", "T", "a", "g", ":">>
TokHost == <<"H", "o", "s", "t", ":">>
TokLastModified == <<"L", "a", "s", "t", "-", "M", "o", "d", "i", "f", "i", "e", "d", ":">>
TokServer == <<"S", "e", "r", "v", "e", "r", ":">>

StrConnection == <<"C", "o", "n", "n", "e", "c", "t", "i", "o", "n", ":", SP>>
StrContentLength == <<"C", "o", "n", "t", "e", "n", "t", "-", "L", "e", "n", "g", "t", "h", ":", SP>>
StrContentType == <<"C", "o", "n", "t", "e", "n", "t", "-", "T", "y", "p", "e", ":", SP>>
StrDate == <<"D", "a", "t", "e", ":", SP>>
StrEtag == <<"E", "T", "a", "g", ":", SP>>
StrHost == <<"H", "o", "s", "t", ":", SP>>
StrLastModified == <<"L", "a", "s", "t", "M", "o", "d", "i", "f", "i", "e", "d", ":", SP>>
StrServer == <<"S", "e", "r", "v", "e", "r", ":", SP>>

\* impl From<String> for HttpHeader
HeaderFrom(item) ==
    IF item = TokConnection THEN Hdr("Connection")
    ELSE IF item = TokContentLength THEN Hdr("ContentLength")
    ELSE IF item = TokContentType THEN Hdr("ContentType")
    ELSE IF item = TokDate THEN Hdr("Date")
    ELSE IF item = TokEtag THEN Hdr("Etag")
    ELSE IF item = TokHost THEN Hdr("Host")
    ELSE IF item = TokLastModified THEN Hdr("LastModified")
    ELSE IF item = TokServer THEN Hdr("Server")
    ELSE Other(item)

\* HttpHeader::as_string
as_string(h) ==
    CASE h.tag = "Connection" -> StrConnection
      [] h.tag = "ContentLength" -> StrContentLength
      [] h.tag = "ContentType" -> StrContentType
      [] h.tag = "Date" -> StrDate
      [] h.tag = "Etag" -> StrEtag
      [] h.tag = "Host" -> StrHost
      [] h.tag = "LastModified" -> StrLastModified
      [] h.tag = "Server" -> StrServer
      [] h.tag = "Other" -> h.name \o <<SP>>

-----------------------------------------------------------------------------
(* The header vocabulary there and back: a header is written with          *)
(* as_string, and the token before the trailing space is read with From.   *)

MaxName == 3

NameBytes == {"X", "-", ":"}

HvNames == UNION {[1..n -> NameBytes] : n \in 0..MaxName}

HvHeaders ==
    {Hdr(t) : t \in {"Connection", "ContentLength", "ContentType", "Date", "Etag",
                     "Host", "LastModified", "Server"}}
      \cup {Other(n) : n \in HvNames \cup {TokDate, <<"a", SP, "b">>}}

HvIdle == [header |-> Hdr("Host"), wire |-> <<>>, back |-> Hdr("Host"), step |-> 0]

HvInit == \E h \in HvHeaders : hv = [header |-> h, wire |-> <<>>, back |-> h, step |-> 0]

\* HttpHeader::as_string
HvWrite ==
    /\ hv.step = 0
    /\ hv' = [hv EXCEPT !.wire = as_string(hv.header), !.step = 1]
    /\ UNCHANGED <<clientVars, rd, pu>>

\* HttpHeader::from on the token, the wire text without its trailing space
HvRead ==
    /\ hv.step = 1
    /\ hv' = [hv EXCEPT !.back = HeaderFrom(SubSeq(hv.wire, 1, Len(hv.wire) - 1)),
                        !.step = 2]
    /\ UNCHANGED <<clientVars, rd, pu>>

-----------------------------------------------------------------------------
(* lib.rs: the client.                                                     *)

Methods == {"Get", "Head", "Post", "Put", "Delete"}

StrGET == <<"G", "E", "T">>
StrHEAD == <<"H", "E", "A", "D">>
StrPOST == <<"P", "O", "S", "T">>
StrPUT == <<"P", "U", "T">>
StrDELETE == <<"D", "E", "L", "E", "T", "E">>

\* HttpMethod::as_str
as_str(m) ==
    CASE m = "Get" -> StrGET
      [] m = "Head" -> StrHEAD
      [] m = "Post" -> StrPOST
      [] m = "Put" -> StrPUT
      [] m = "Delete" -> StrDELETE

HTTP_VERSION == <<SP, "H", "T", "T", "P", "/", "1", ".", "1", CR, LF>>
LINE_END == <<CR, LF>>
\* A mutant of HTTP_1_0: the older version response accepts is 1.2.
HTTP_1_2 == <<"H", "T", "T", "P", "/", "1", ".", "2">>
HTTP_1_0 == <<"H", "T", "T", "P", "/", "1", ".", "0">>
HTTP_1_1 == <<"H", "T", "T", "P", "/", "1", ".", "1">>

BuffSize == 256

\* The URLs the verb methods are called with.
UrlPlain == <<"h", "t", "t", "p", ":", "/", "/", "h">>
UrlFull == <<"h", "t", "t", "p", "s", ":", "/", "/", "h", ":", "8", "/", "p">>
UrlFtp == <<"f", "t", "p", ":", "/", "/", "h">>
UrlBad == <<"h", "/", "p">>
UrlUpper == <<"H", "T", "T", "P", ":", "/", "/", "h">>
UrlPort == <<"h", "t", "t", "p", ":", "/", "/", "h", ":", "x", "/", "p">>
Urls == {UrlPlain, UrlFull, UrlFtp, UrlBad, UrlUpper, UrlPort}

\* The verb-method calls made on the client: every verb and every URL occurs.
Requests ==
    {[m |-> "Get", u |-> UrlPlain], [m |-> "Head", u |-> UrlFtp],
     [m |-> "Post", u |-> UrlFull], [m |-> "Put", u |-> UrlBad],
     [m |-> "Delete", u |-> UrlFull], [m |-> "Get", u |-> UrlUpper],
     [m |-> "Head", u |-> UrlPort]}

\* What the peer delivers on the channel (the data of the StringChannel).
RespOk ==
    <<"H", "T", "T", "P", "/", "1", ".", "1", SP, "2", "0", "0", SP, "O",
      "K", CR, LF, "C", "o", "n", "t", "e", "n", "t", "-", "T", "y", "p",
      "e", ":", SP, "t", CR, LF, "D", "a", "t", "e", ":", SP, "d", CR, LF,
      CR, LF, "b", "o", "d", "y">>
RespVersion ==
    <<"H", "T", "T", "P", "/", "1", ".", "2", SP, "2", "0", "0", SP, "O",
      "K", CR, LF, CR, LF>>
RespCode ==
    <<"H", "T", "T", "P", "/", "1", ".", "1", SP, "a", "b", "c", SP, "O",
      "K", CR, LF, CR, LF>>
RespCut ==
    <<"H", "T", "T", "P", "/", "1", ".", "1", SP, "2", "0", "0", SP, "O",
      "K", CR, LF, "D", "a", "t", "e", ":", SP, "d">>
Responses == {RespOk, RespVersion, RespCode, RespCut}

\* Replies put together from their parts: the three tokens of the status line,
\* the header lines, the blank line (or the end of the stream in its place) and
\* the body.
RsVersions == {HTTP_1_0, HTTP_1_1,
               <<"H", "T", "T", "P", "/", "1", ".", "2">>,
               <<"h", "t", "t", "p", "/", "1", ".", "1">>,
               <<>>}
RsCodes == {<<"2", "0", "0">>, <<"7">>, <<"+", "7">>, <<"a", "b", "c">>,
            <<"6", "5", "5", "3", "5">>, <<"6", "5", "5", "3", "6">>,
            <<"2", "x">>, <<>>}
RsReasons == {<<"O", "K">>, <<"N", "o", "t", SP, "F", "o", "u", "n", "d">>, <<>>}
RsHeaderLines ==
    {<<"C", "o", "n", "t", "e", "n", "t", "-", "T", "y", "p", "e", ":", SP, "t">>,
     <<"D", "a", "t", "e", ":", SP, "a", SP, "b">>,
     <<"X", ":", SP, "v">>,
     <<"S", "e", "r", "v", "e", "r", ":">>}
RsBlocks == {<<>>} \cup {<<h>> : h \in RsHeaderLines}
                  \cup {<<h, g>> : h, g \in RsHeaderLines}
RsBodies == {<<>>, <<"b", CR, LF, CR, LF, "d">>}

StatusLine(version, code, reason) ==
    version \o <<SP>> \o code \o <<SP>> \o reason \o LINE_END

RECURSIVE HeaderBlock(_)
HeaderBlock(lines) ==
    IF lines = <<>> THEN <<>> ELSE Head(lines) \o LINE_END \o HeaderBlock(Tail(lines))

Reply(version, code, reason, lines, blank, body) ==
    StatusLine(version, code, reason) \o HeaderBlock(lines)
        \o (IF blank THEN LINE_END ELSE <<>>) \o body

\* Every version and code before one header and a body; every reason and every
\* header block after a good version and code, the block ended by the blank line
\* and a body or cut by the end of the stream; and two status lines short of a
\* space.
Replies ==
    {Reply(v, c, <<"O", "K">>, <<<<"X", ":", SP, "v">>>>, TRUE, <<"b">>) :
        v \in RsVersions, c \in RsCodes}
      \cup {Reply(HTTP_1_1, <<"2", "0", "0">>, r, <<>>, TRUE, <<>>) : r \in RsReasons}
      \cup {Reply(HTTP_1_0, <<"4", "0", "4">>, <<"N", "o">>, ls, TRUE, b) :
                ls \in RsBlocks, b \in RsBodies}
      \cup {Reply(HTTP_1_0, <<"4", "0", "4">>, <<"N", "o">>, ls, FALSE, <<>>) :
                ls \in RsBlocks}
      \cup {<<"H", "T", "T", "P", "/", "1", ".", "2", CR, LF, CR, LF>>,
            <<"H", "T", "T", "P", "/", "1", ".", "1", SP, "2", "0", "0", CR, LF, CR, LF>>}
\* The request headers and body chunks the calls are made with.
HeaderPairs == {[name |-> Hdr("ContentType"), value |-> <<"t">>],
                [name |-> Other(<<"X", ":">>), value |-> <<"v">>]}

HeaderLists == {<<>>} \cup {<<h, g>> : h, g \in HeaderPairs}

Bodies == {<<>>, <<"x">>}

\* The filters response() is called with: a filter is the set of the variants
\* it accepts.
AllTags == {"Connection", "ContentLength", "ContentType", "Date", "Etag", "Host",
            "LastModified", "Server", "Other"}

Filters == {AllTags, {"ContentType"}, {}}

\* headers, header and body are called while the exchange has made fewer than
\* MaxLog calls on the channel (open makes 8).
MaxLog == 11

(* The channel.  Its receiving side is the StringChannel of traits.rs; open *)
(* and send may fail, as the Channel trait lets them.  chan.log is the      *)
(* history of the calls made on the channel since the last verb method:     *)
(* site names the statement of lib.rs that made the call, and sent is the   *)
(* count a send returned.  chan.short tells a channel whose send writes     *)
(* all it is given and returns its length from one that returns Ok(0), as   *)
(* StringChannel::send does.                                                *)

ChanOpen(host, port, tls) ==
    [call |-> "open", site |-> "open", data |-> <<>>, host |-> host, port |-> port,
     tls |-> tls, ok |-> TRUE, sent |-> 0]

ChanSend(site, data) ==
    [call |-> "send", site |-> site, data |-> data, host |-> <<>>, port |-> 0,
     tls |-> FALSE, ok |-> TRUE, sent |-> Len(data)]

OpenErrors == {"UnableToConnect", "TlsUnsupported"}
SendErrors == {"SomethingWentWrong"}

\* How a run of channel calls ends: k = 0 when every call returns Ok, else the
\* k-th call returns Err(e) and the `?` returns it.
Outcomes(calls) ==
    {[k |-> 0, e |-> ""]}
        \cup {[k |-> k, e |-> e] : k \in {j \in 1..Len(calls) : calls[j].call = "open"},
                                   e \in OpenErrors}
        \cup {[k |-> k, e |-> e] : k \in {j \in 1..Len(calls) : calls[j].call = "send"},
                                   e \in SendErrors}

\* The calls made up to the failing one, each with what the channel returned.
Run(calls, k) ==
    [j \in 1..(IF k = 0 THEN Len(calls) ELSE k) |->
        [calls[j] EXCEPT !.ok = (j # k),
                         !.sent = IF chan.short \/ j = k THEN 0 ELSE @]]

NoResp == [status_code |-> 0, status |-> <<>>, headers |-> <<>>]

Call(op, res, err, cause, pre) ==
    [op |-> op, res |-> res, err |-> err, cause |-> cause, pre |-> pre]

\* Client::new over a StringChannel holding the peer's reply.
ClientInit ==
    /\ state = "Error"
    /\ method = "Get"
    /\ url = <<>>
    /\ headers_flushed = FALSE
    /\ \E d \in Responses : chan = [log |-> <<>>, data |-> d, pos |-> 0, short |-> FALSE]
    /\ last = Call("new", "Ok", "", "", "Error")
    /\ resp = NoResp

\* Client::new over a StringChannel holding one of the replies.
ClientInitReply ==
    /\ state = "Error"
    /\ method = "Get"
    /\ url = <<>>
    /\ headers_flushed = FALSE
    /\ \E d \in Replies : chan = [log |-> <<>>, data |-> d, pos |-> 0, short |-> FALSE]
    /\ last = Call("new", "Ok", "", "", "Error")
    /\ resp = NoResp

\* Client::new over a channel of either kind.
ClientInitShort ==
    /\ state = "Error"
    /\ method = "Get"
    /\ url = <<>>
    /\ headers_flushed = FALSE
    /\ \E sh \in BOOLEAN : chan = [log |-> <<>>, data |-> RespOk, pos |-> 0, short |-> sh]
    /\ last = Call("new", "Ok", "", "", "Error")
    /\ resp = NoResp

ClientIdle ==
    /\ state = "Error"
    /\ method = "Get"
    /\ url = <<>>
    /\ headers_flushed = FALSE
    /\ chan = [log |-> <<>>, data |-> <<>>, pos |-> 0, short |-> FALSE]
    /\ last = Call("new", "Ok", "", "", "Error")
    /\ resp = NoResp

\* Client::request, behind get, head, post, put and delete.
Request ==
    \E r \in Requests :
        /\ url' = r.u
        /\ method' = r.m
        /\ state' = "Created"
        /\ chan' = [chan EXCEPT !.log = <<>>]
        /\ last' = Call("request", "Ok", "", "", state)
        /\ resp' = NoResp
        /\ UNCHANGED <<headers_flushed, rd, pu, hv>>

\* A mutant of Panic: the state is set to Error before the assert_eq!.
PanicAfterError(op) ==
    /\ state' = "Error"
    /\ last' = Call(op, "Panic", "", "", state)
    /\ resp' = NoResp
    /\ UNCHANGED <<method, url, headers_flushed, chan, rd, pu, hv>>

\* A failed assert_eq!: the call panics before it assigns anything.
Panic(op) ==
    /\ last' = Call(op, "Panic", "", "", state)
    /\ resp' = NoResp
    /\ UNCHANGED <<state, method, url, headers_flushed, chan, rd, pu, hv>>

\* A mutant of Fail: the state is not set to Error on entry.
FailKeepsState(op, err, cause) ==
    /\ state' = state
    /\ last' = Call(op, "Err", err, cause, state)
    /\ resp' = NoResp

\* `return Err(..)` or a failing `?` after `self.state = ClientState::Error`.
Fail(op, err, cause) ==
    /\ state' = "Error"
    /\ last' = Call(op, "Err", err, cause, state)
    /\ resp' = NoResp

\* The channel calls of a protocol call, ended by the first that fails; on
\* success the call leaves the client in final_state.
Exec(op, calls, final_state) ==
    \E out \in Outcomes(calls) :
        /\ chan' = [chan EXCEPT !.log = chan.log \o Run(calls, out.k)]
        /\ IF out.k = 0
           THEN /\ state' = final_state
                /\ last' = Call(op, "Ok", "", "", state)
                /\ resp' = NoResp
           ELSE Fail(op, "ChannelError", out.e)

\* A mutant of OpenCalls: TLS is asked for every scheme but https.
OpenCallsTls(m, p) ==
    <<ChanOpen(p.host, p.port, p.scheme # HTTPS),
      ChanSend("method", as_str(m)),
      ChanSend("sp", SPACE),
      ChanSend("path", p.path),
      ChanSend("version", HTTP_VERSION),
      ChanSend("host_name", as_string(Hdr("Host"))),
      ChanSend("host_value", p.host),
      ChanSend("host_end", LINE_END)>>

OpenCalls(m, p) ==
    <<ChanOpen(p.host, p.port, p.scheme = HTTPS),
      ChanSend("method", as_str(m)),
      ChanSend("sp", SPACE),
      ChanSend("path", p.path),
      ChanSend("version", HTTP_VERSION),
      ChanSend("host_name", as_string(Hdr("Host"))),
      ChanSend("host_value", p.host),
      ChanSend("host_end", LINE_END)>>

\* A mutant of Open: the channel is opened before the scheme is looked at.
OpenChecksLate ==
    IF state # "Created" THEN Panic("open")
    ELSE LET p == parse_url(url) IN
         IF ~p.ok
         THEN /\ Fail("open", "BadUrl", p.err)
              /\ UNCHANGED <<method, url, headers_flushed, chan, rd, pu, hv>>
         ELSE IF p.scheme # HTTP /\ p.scheme # HTTPS
         THEN /\ Fail("open", "UnsupportedScheme", "")
              /\ chan' = [chan EXCEPT !.log = Append(chan.log, ChanOpen(p.host, p.port, FALSE))]
              /\ UNCHANGED <<method, url, headers_flushed, rd, pu, hv>>
         ELSE /\ Exec("open", OpenCalls(method, p), "HeadersOrBody")
              /\ UNCHANGED <<method, url, headers_flushed, rd, pu, hv>>

\* Client::open
Open ==
    IF state # "Created" THEN Panic("open")
    ELSE LET p == parse_url(url) IN
         IF ~p.ok
         THEN /\ Fail("open", "BadUrl", p.err)
              /\ UNCHANGED <<method, url, headers_flushed, chan, rd, pu, hv>>
         ELSE IF p.scheme # HTTP /\ p.scheme # HTTPS
         THEN /\ Fail("open", "UnsupportedScheme", "")
              /\ UNCHANGED <<method, url, headers_flushed, chan, rd, pu, hv>>
         ELSE /\ Exec("open", OpenCalls(method, p), "HeadersOrBody")
              /\ UNCHANGED <<method, url, headers_flushed, rd, pu, hv>>

RECURSIVE HeaderCalls(_)
HeaderCalls(hs) ==
    IF hs = <<>> THEN <<>>
    ELSE <<ChanSend("hdr_name", as_string(Head(hs).name)),
           ChanSend("hdr_value", Head(hs).value),
           ChanSend("hdr_end", LINE_END)>> \o HeaderCalls(Tail(hs))

\* A mutant of headers: the assert_eq! on the state is missing.
headersNoAssert(op, hs) ==
    /\ Exec(op, HeaderCalls(hs), "HeadersOrBody")
    /\ UNCHANGED <<method, url, headers_flushed, rd, pu, hv>>

\* Client::headers, called as op
headers(op, hs) ==
    IF state # "HeadersOrBody" THEN Panic(op)
    ELSE /\ Exec(op, HeaderCalls(hs), "HeadersOrBody")
         /\ UNCHANGED <<method, url, headers_flushed, rd, pu, hv>>

Headers ==
    /\ Len(chan.log) < MaxLog
    /\ \E hs \in HeaderLists : headers("headers", hs)

\* Client::header
Header ==
    /\ Len(chan.log) < MaxLog
    /\ \E h \in HeaderPairs : headers("header", <<h>>)

\* The channel calls of _send.
SendCalls(flushed, body) ==
    (IF ~flushed THEN <<ChanSend("separator", LINE_END)>> ELSE <<>>)
        \o (IF Len(body) # 0 THEN <<ChanSend("body", body)>> ELSE <<>>)

\* Client::_send, called as op
_send(op, body, final_state) ==
    IF state # "HeadersOrBody" THEN Panic(op)
    ELSE /\ Exec(op, SendCalls(headers_flushed, body), final_state)
         /\ headers_flushed' = (IF ~headers_flushed THEN TRUE ELSE headers_flushed)
         /\ UNCHANGED <<method, url, rd, pu, hv>>

\* A mutant of Body: body completes the request, as send does.
BodyCompletes ==
    /\ Len(chan.log) < MaxLog
    /\ \E b \in Bodies : _send("body", b, "ReadResponse")

\* Client::body
Body ==
    /\ Len(chan.log) < MaxLog
    /\ \E b \in Bodies : _send("body", b, "HeadersOrBody")

\* Client::send
Send == \E b \in Bodies : _send("send", b, "ReadResponse")

RespRes(ok, err, cause, pos, status_code, status, hs) ==
    [ok |-> ok, err |-> err, cause |-> cause, pos |-> pos,
     status_code |-> status_code, status |-> status, headers |-> hs]

RespErr(err, cause, pos) == RespRes(FALSE, err, cause, pos, 0, <<>>, <<>>)

RECURSIVE ReadHeadersStopAtRejected(_, _, _, _, _, _)
\* A mutant of ReadHeaders: the loop ends at the first header the filter
\* rejects.
ReadHeadersStopAtRejected(data, pos, filter, status_code, status, acc) ==
    LET line == ReadStringUntil(data, pos, BuffSize, LINE_END) IN
    IF ~line.ok THEN RespErr("ChannelError", line.err, line.pos)
    ELSE IF line.str = <<>>
    THEN RespRes(TRUE, "", "", line.pos, status_code, status, acc)
    ELSE LET name == ReadStringUntil(line.str, 0, BuffSize, SPACE) IN
         IF ~name.ok THEN RespErr("ChannelError", name.err, line.pos)
         ELSE LET header_name == HeaderFrom(name.str) IN
              IF header_name.tag \in filter
              THEN LET value == ReadToEnd(line.str, name.pos, BuffSize) IN
                   ReadHeadersStopAtRejected(data, line.pos, filter, status_code, status,
                               Append(acc, [name |-> header_name, value |-> value.str]))
              ELSE RespRes(TRUE, "", "", line.pos, status_code, status, acc)

RECURSIVE ReadHeadersNewestFirst(_, _, _, _, _, _)
\* A mutant of ReadHeaders: an accepted header is put in front of the list.
ReadHeadersNewestFirst(data, pos, filter, status_code, status, acc) ==
    LET line == ReadStringUntil(data, pos, BuffSize, LINE_END) IN
    IF ~line.ok THEN RespErr("ChannelError", line.err, line.pos)
    ELSE IF line.str = <<>>
    THEN RespRes(TRUE, "", "", line.pos, status_code, status, acc)
    ELSE LET name == ReadStringUntil(line.str, 0, BuffSize, SPACE) IN
         IF ~name.ok THEN RespErr("ChannelError", name.err, line.pos)
         ELSE LET header_name == HeaderFrom(name.str) IN
              IF header_name.tag \in filter
              THEN LET value == ReadToEnd(line.str, name.pos, BuffSize) IN
                   ReadHeadersNewestFirst(data, line.pos, filter, status_code, status,
                       <<[name |-> header_name, value |-> value.str]>> \o acc)
              ELSE ReadHeadersNewestFirst(data, line.pos, filter, status_code, status, acc)

RECURSIVE ReadHeaders(_, _, _, _, _, _)
\* The header loop of response: one pass reads one line of the channel.
ReadHeaders(data, pos, filter, status_code, status, acc) ==
    LET line == ReadStringUntil(data, pos, BuffSize, LINE_END) IN
    IF ~line.ok THEN RespErr("ChannelError", line.err, line.pos)
    ELSE IF line.str = <<>>
    THEN RespRes(TRUE, "", "", line.pos, status_code, status, acc)
    ELSE LET name == ReadStringUntil(line.str, 0, BuffSize, SPACE) IN
         IF ~name.ok THEN RespErr("ChannelError", name.err, line.pos)
         ELSE LET header_name == HeaderFrom(name.str) IN
              IF header_name.tag \in filter
              THEN LET value == ReadToEnd(line.str, name.pos, BuffSize) IN
                   ReadHeaders(data, line.pos, filter, status_code, status,
                               Append(acc, [name |-> header_name, value |-> value.str]))
              ELSE ReadHeaders(data, line.pos, filter, status_code, status, acc)

\* The reads of response: the status line, parsed through a StringChannel of
\* its own, then the header lines.
ReadResponse(data, pos, filter) ==
    LET status_line == ReadStringUntil(data, pos, BuffSize, LINE_END) IN
    IF ~status_line.ok THEN RespErr("ChannelError", status_line.err, status_line.pos)
    ELSE LET http_version == ReadStringUntil(status_line.str, 0, BuffSize, SPACE) IN
    IF ~http_version.ok THEN RespErr("ChannelError", http_version.err, status_line.pos)
    ELSE IF http_version.str # HTTP_1_0 /\ http_version.str # HTTP_1_1
    THEN RespErr("InvalidVersion", "", status_line.pos)
    ELSE LET code == ReadStringUntil(status_line.str, http_version.pos, BuffSize, SPACE) IN
    IF ~code.ok THEN RespErr("ChannelError", code.err, status_line.pos)
    ELSE LET status_code == ParseU16(code.str) IN
    IF ~status_code.ok THEN RespErr("InvalidStatusCode", "", status_line.pos)
    ELSE LET status == ReadToEnd(status_line.str, code.pos, BuffSize) IN
         ReadHeaders(data, status_line.pos, filter, status_code.v, status.str, <<>>)

\* A mutant of Receive: a successful response takes one byte of the body.
ReceiveOverRead(filter, log) ==
    LET r == ReadResponse(chan.data, chan.pos, filter) IN
    /\ chan' = [chan EXCEPT !.log = log,
                            !.pos = IF r.ok /\ r.pos < Len(chan.data)
                                    THEN r.pos + 1 ELSE r.pos]
    /\ IF r.ok
       THEN /\ state' = "Done"
            /\ last' = Call("response", "Ok", "", "", state)
            /\ resp' = [status_code |-> r.status_code, status |-> r.status,
                        headers |-> r.headers]
       ELSE Fail("response", r.err, r.cause)

\* response once the state is ReadResponse, the channel log being log.
Receive(filter, log) ==
    LET r == ReadResponse(chan.data, chan.pos, filter) IN
    /\ chan' = [chan EXCEPT !.log = log, !.pos = r.pos]
    /\ IF r.ok
       THEN /\ state' = "Done"
            /\ last' = Call("response", "Ok", "", "", state)
            /\ resp' = [status_code |-> r.status_code, status |-> r.status,
                        headers |-> r.headers]
       ELSE Fail("response", r.err, r.cause)

\* A mutant of Response: in HeadersOrBody the reply is read at once, without the
\* empty send.
ResponseNoSend ==
    \E filter \in Filters :
        IF state \in {"HeadersOrBody", "ReadResponse"}
        THEN /\ Receive(filter, chan.log)
             /\ UNCHANGED <<method, url, headers_flushed, rd, pu, hv>>
        ELSE Panic("response")

\* Client::response
Response ==
    \E filter \in Filters :
        IF state = "HeadersOrBody"
        THEN LET calls == SendCalls(headers_flushed, <<>>) IN
             \E out \in Outcomes(calls) :
                 /\ headers_flushed' = TRUE
                 /\ UNCHANGED <<method, url, rd, pu, hv>>
                 /\ IF out.k = 0
                    THEN Receive(filter, chan.log \o Run(calls, 0))
                    ELSE /\ chan' = [chan EXCEPT !.log = chan.log \o Run(calls, out.k)]
                         /\ Fail("response", "ChannelError", out.e)
        ELSE IF state = "ReadResponse"
        THEN /\ Receive(filter, chan.log)
             /\ UNCHANGED <<method, url, headers_flushed, rd, pu, hv>>
        ELSE Panic("response")

-----------------------------------------------------------------------------
(* The specifications                                                      *)

Init == ClientInit /\ rd = RdIdle /\ pu = PuIdle /\ hv = HvIdle

Next == Request \/ Open \/ Headers \/ Header \/ Body \/ Send \/ Response

\* One client over one channel, called in any order.
Spec == Init /\ [][Next]_vars

InitResp == ClientInitReply /\ rd = RdIdle /\ pu = PuIdle /\ hv = HvIdle

NextResp == Request \/ Open \/ Send \/ Response

\* One client over a channel that holds any of the replies.
SpecResp == InitResp /\ [][NextResp]_vars

InitRead == ClientIdle /\ RdInit /\ pu = PuIdle /\ hv = HvIdle

NextRead == RdUntil \/ RdToEnd

\* The read primitives on a StringChannel.
SpecRead == InitRead /\ [][NextRead]_vars

InitShort == ClientInitShort /\ rd = RdIdle /\ pu = PuIdle /\ hv = HvIdle

NextShort == Request \/ Open \/ Header \/ Body \/ Send

\* The sending half of an exchange, over a channel of either kind.
SpecShort == InitShort /\ [][NextShort]_vars

InitHdr == ClientIdle /\ rd = RdIdle /\ pu = PuIdle /\ HvInit

NextHdr == HvWrite \/ HvRead

\* The header vocabulary, written and read back.
SpecHdr == InitHdr /\ [][NextHdr]_vars

InitPort == ClientIdle /\ rd = RdIdle /\ PuInitPort /\ hv = HvIdle

NextPort == PuParse

\* parse_url on URLs with any port token.
SpecPort == InitPort /\ [][NextPort]_vars

InitRaw == ClientIdle /\ rd = RdIdle /\ PuInitRaw /\ hv = HvIdle

NextRaw == PuParse

\* parse_url on any input.
SpecRaw == InitRaw /\ [][NextRaw]_vars

InitUrl == ClientIdle /\ rd = RdIdle /\ PuInit /\ hv = HvIdle

NextUrl == PuParse

\* parse_url on well-formed URLs.
SpecUrl == InitUrl /\ [][NextUrl]_vars

-----------------------------------------------------------------------------
(* The client's state machine (Spec)                                       *)

ProtocolOps == {"open", "headers", "header", "body", "send", "response"}

\* C1: whenever open, headers, header, body, send or response returns an error,
\* the client's state is Error when the call returns, whatever the state it was
\* called in and however many channel calls it had made.
C1_ErrorLeavesError ==
    (last.op \in ProtocolOps /\ last.res = "Err") => state = "Error"

\* open has failed on its fourth send: the channel is open and part of the
\* request line is out.
C1_Witness ==
    /\ last.op = "open"
    /\ last.res = "Err"
    /\ last.err = "ChannelError"
    /\ Len(chan.log) = 5
    /\ state = "Error"

\* C2, as stated: a successful call follows the transition table, response
\* moving ReadResponse to Done and nothing else.
C2_TableOnly ==
    last.res = "Ok" =>
        CASE last.op = "open" -> last.pre = "Created" /\ state = "HeadersOrBody"
          [] last.op \in {"headers", "header", "body"} ->
                last.pre = "HeadersOrBody" /\ state = "HeadersOrBody"
          [] last.op = "send" -> last.pre = "HeadersOrBody" /\ state = "ReadResponse"
          [] last.op = "response" -> last.pre = "ReadResponse" /\ state = "Done"
          [] OTHER -> TRUE

\* C2, amended: a successful call follows the transition table, and response
\* moves to Done from ReadResponse and also, through its implicit empty send,
\* from HeadersOrBody.
C2_TableAndImplicitSend ==
    last.res = "Ok" =>
        CASE last.op = "open" -> last.pre = "Created" /\ state = "HeadersOrBody"
          [] last.op \in {"headers", "header", "body"} ->
                last.pre = "HeadersOrBody" /\ state = "HeadersOrBody"
          [] last.op = "send" -> last.pre = "HeadersOrBody" /\ state = "ReadResponse"
          [] last.op = "response" ->
                last.pre \in {"ReadResponse", "HeadersOrBody"} /\ state = "Done"
          [] OTHER -> TRUE

\* response has succeeded on a client that was in HeadersOrBody.
C2_Witness ==
    /\ last.op = "response"
    /\ last.res = "Ok"
    /\ last.pre = "HeadersOrBody"
    /\ state = "Done"

\* C3, as stated: once an operation has failed (state Error) or response has
\* succeeded (state Done), no later public operation, the verb methods included,
\* leaves Error and Done, and every later operation fails.
C3_TerminalForAll ==
    [][((last.res = "Err" /\ state = "Error") \/ state = "Done")
          => (state' \in {"Error", "Done"} /\ last'.res \in {"Err", "Panic"})]_vars

\* C3, amended: Error and Done are terminal for the protocol operations only.
\* In Error or Done, open, headers, header, body, send and response fail their
\* assertion and leave the state as it is; a verb method moves the client to
\* Created.
C3_TerminalForProtocol ==
    [][(state \in {"Error", "Done"})
          => (IF last'.op = "request"
              THEN state' = "Created"
              ELSE (state' = state /\ last'.res = "Panic"))]_vars

\* A protocol operation has been rejected on a client whose exchange had failed
\* or was done.
C3_Witness ==
    /\ last.res = "Panic"
    /\ last.pre = "Done"
    /\ state = "Done"
    /\ url # <<>>

\* C4: a protocol operation called outside its valid state (open outside
\* Created; headers, header, body, send outside HeadersOrBody; response outside
\* ReadResponse and HeadersOrBody) fails its assertion before it changes the
\* client or calls the channel; this holds of a fresh client, whose state is
\* Error.
C4_RejectedUntouched ==
    [][(\/ last'.op = "open" /\ state # "Created"
        \/ last'.op \in {"headers", "header", "body", "send"} /\ state # "HeadersOrBody"
        \/ last'.op = "response" /\ state \notin {"ReadResponse", "HeadersOrBody"})
          => (/\ last'.res = "Panic"
              /\ UNCHANGED <<state, method, url, headers_flushed, chan>>)]_vars

\* headers has been rejected on a fresh client, before any verb method.
C4_Witness ==
    /\ last.op = "headers"
    /\ last.res = "Panic"
    /\ last.pre = "Error"
    /\ url = <<>>
    /\ chan.log = <<>>

\* The separators written in this exchange: the sends of _send's LINE_END that
\* the channel accepted.
Separators == {j \in 1..Len(chan.log) :
                  chan.log[j].site = "separator" /\ chan.log[j].ok}

\* C5: in every exchange the blank line that separates the headers from the body
\* is written exactly once, by the first body or send of the exchange: it is
\* there once a body or send has succeeded, and never twice.
C5_SeparatorOnce ==
    /\ Cardinality(Separators) <= 1
    /\ (last.op \in {"body", "send"} /\ last.res = "Ok") => Cardinality(Separators) = 1
    /\ state = "ReadResponse" => Cardinality(Separators) = 1

Sites(from) == [j \in 1..(Len(chan.log) - from + 1) |-> chan.log[j + from - 1].site]

RECURSIVE HeaderThenBody(_, _)
\* ss is header lines, then one separator, then body chunks only.
HeaderThenBody(ss, inBody) ==
    IF ss = <<>> THEN inBody
    ELSE IF inBody THEN Head(ss) = "body" /\ HeaderThenBody(Tail(ss), TRUE)
    ELSE IF Head(ss) = "separator" THEN HeaderThenBody(Tail(ss), TRUE)
    ELSE /\ Len(ss) >= 3
         /\ SubSeq(ss, 1, 3) = <<"hdr_name", "hdr_value", "hdr_end">>
         /\ HeaderThenBody(SubSeq(ss, 4, Len(ss)), FALSE)

\* C6: in an exchange that has reached ReadResponse the sends are, in this order,
\* the request line, the Host line, the header lines, one blank line, then the
\* body chunks: no header line follows the blank line.
C6_WireOrder ==
    state = "ReadResponse" =>
        /\ Len(chan.log) >= 9
        /\ SubSeq(Sites(1), 1, 8) = <<"open", "method", "sp", "path", "version",
                                      "host_name", "host_value", "host_end">>
        /\ HeaderThenBody(Sites(9), FALSE)

\* C10: a successful open has called channel.open with the host and port of
\* parse_url and tls exactly for https, and has then sent the method name, a
\* space, the path, " HTTP/1.1" CRLF, "Host: ", the host and CRLF, and nothing
\* else; when channel.open fails nothing is sent.
C10_OpenWire ==
    last.op = "open" =>
        /\ last.res = "Ok" =>
              LET p == parse_url(url) IN
              /\ Len(chan.log) = 8
              /\ \A j \in 1..8 : chan.log[j].ok
              /\ chan.log[1].call = "open"
              /\ chan.log[1].host = p.host
              /\ chan.log[1].port = p.port
              /\ chan.log[1].tls = (p.scheme = <<"h", "t", "t", "p", "s">>)
              /\ \A j \in 2..8 : chan.log[j].call = "send"
              /\ [j \in 1..7 |-> chan.log[j + 1].data]
                    = <<as_str(method), <<SP>>, p.path,
                        <<SP, "H", "T", "T", "P", "/", "1", ".", "1", CR, LF>>,
                        <<"H", "o", "s", "t", ":", SP>>, p.host, <<CR, LF>>>>
        /\ \A j \in 2..Len(chan.log) :
              chan.log[j].call = "send" /\ chan.log[1].call = "open" /\ chan.log[1].ok

\* open has succeeded for POST https://h:8/p.
C10_Witness ==
    /\ last.op = "open"
    /\ last.res = "Ok"
    /\ method = "Post"
    /\ url = UrlFull
    /\ chan.log[1].tls
    /\ chan.log[1].port = 8
    /\ chan.log[4].data = <<"/", "p">>

\* C11: open fails with UnsupportedScheme for every URL that parses but whose
\* scheme is not exactly "http" or "https", and with BadUrl, carrying parse_url's
\* error, for every URL parse_url rejects; in both cases no call has been made
\* on the channel when open returns.
C11_OpenRejectsUrl ==
    [][(last'.op = "open" /\ state = "Created")
          => LET p == parse_url(url) IN
             /\ ~p.ok => (/\ last'.res = "Err"
                          /\ last'.err = "BadUrl"
                          /\ last'.cause = p.err
                          /\ chan' = chan)
             /\ (p.ok /\ p.scheme \notin {HTTP, HTTPS})
                   => (/\ last'.res = "Err"
                       /\ last'.err = "UnsupportedScheme"
                       /\ chan' = chan)]_vars

\* open has refused HTTP://h, whose scheme is not the lower-case http, with
\* nothing done on the channel.
C11_Witness ==
    /\ last.op = "open"
    /\ last.res = "Err"
    /\ last.err = "UnsupportedScheme"
    /\ url = UrlUpper
    /\ chan.log = <<>>
    /\ chan.pos = 0

\* What send(&[]) followed by response(filter) leaves, called in HeadersOrBody
\* with every channel call succeeding: the separator is in the log unless it was
\* flushed before, and the reply is read from the channel's position.
AfterSendThenResponse(filter) ==
    LET r == ReadResponse(chan.data, chan.pos, filter) IN
    [log |-> IF headers_flushed THEN chan.log
             ELSE Append(chan.log, ChanSend("separator", LINE_END)),
     pos |-> r.pos,
     headers_flushed |-> TRUE,
     state |-> IF r.ok THEN "Done" ELSE "Error",
     res |-> IF r.ok THEN "Ok" ELSE "Err",
     err |-> r.err,
     resp |-> IF r.ok THEN [status_code |-> r.status_code, status |-> r.status,
                            headers |-> r.headers]
              ELSE NoResp]

\* C12: response called in HeadersOrBody does what send(&[]) followed by
\* response does: it writes the separator if it was not written yet, consumes
\* the same bytes of the channel, and returns the same status code, reason and
\* headers, or the same error, in the same final state.
C12_ImplicitSend ==
    [][(/\ last'.op = "response"
        /\ state = "HeadersOrBody"
        /\ \A j \in 1..Len(chan'.log) : chan'.log[j].ok)
          => \E filter \in Filters :
                LET e == AfterSendThenResponse(filter) IN
                /\ chan'.log = e.log
                /\ chan'.pos = e.pos
                /\ headers_flushed' = e.headers_flushed
                /\ state' = e.state
                /\ last'.res = e.res
                /\ last'.err = e.err
                /\ resp' = e.resp]_vars

\* response, called right after open, has written the separator itself and
\* returned the reply with its headers.
C12_Witness ==
    /\ last.op = "response"
    /\ last.res = "Ok"
    /\ last.pre = "HeadersOrBody"
    /\ Len(chan.log) = 9
    /\ chan.log[9].site = "separator"
    /\ resp.status_code = 200
    /\ Len(resp.headers) = 2

-----------------------------------------------------------------------------
(* The reply on the wire and what response makes of it (SpecResp)          *)

\* The index of the first CR LF of d after its first from bytes, 0 if none.
FirstCrlf(d, from) ==
    LET ks == {k \in (from + 1)..(Len(d) - 1) : d[k] = CR /\ d[k + 1] = LF} IN
    IF ks = {} THEN 0 ELSE CHOOSE k \in ks : \A j \in ks : k <= j

\* The line of d that starts after its first from bytes.
WireLine(d, from) == SubSeq(d, from + 1, FirstCrlf(d, from) - 1)

\* The text of a line before and after its first space.
BeforeSpace(line) == SubSeq(line, 1, FirstIdx(line, SP) - 1)
AfterSpace(line) == SubSeq(line, FirstIdx(line, SP) + 1, Len(line))

\* The step is a call of response that got as far as reading the channel.
ReadsReply ==
    /\ last'.op = "response"
    /\ state \in {"HeadersOrBody", "ReadResponse"}
    /\ \A j \in 1..Len(chan'.log) : chan'.log[j].ok

\* The channel holds, from its position, a status line with a first token ended
\* by a space.
HasVersionToken ==
    /\ FirstCrlf(chan.data, chan.pos) > 0
    /\ HasByte(WireLine(chan.data, chan.pos), SP)
    /\ ~HasByte(WireLine(chan.data, chan.pos), CR)

AcceptedVersions == {<<"H", "T", "T", "P", "/", "1", ".", "0">>,
                     <<"H", "T", "T", "P", "/", "1", ".", "1">>}

\* C13: response fails with InvalidVersion whenever the first space-delimited
\* token of the status line is anything but HTTP/1.0 or HTTP/1.1, having read
\* the status line and nothing after it; with either of the two the version is
\* accepted.
C13_VersionToken ==
    [][(ReadsReply /\ HasVersionToken)
          => LET line == WireLine(chan.data, chan.pos) IN
             IF BeforeSpace(line) \in AcceptedVersions
             THEN last'.err # "InvalidVersion"
             ELSE /\ last'.res = "Err"
                  /\ last'.err = "InvalidVersion"
                  /\ state' = "Error"
                  /\ chan'.pos = chan.pos + Len(line) + 2]_vars

\* response has refused the version http/1.1, written in lower case, with the
\* header line still on the channel.
C13_Witness ==
    /\ last.op = "response"
    /\ last.err = "InvalidVersion"
    /\ SubSeq(chan.data, 1, 9) = <<"h", "t", "t", "p", "/", "1", ".", "1", SP>>
    /\ chan.pos = FirstCrlf(chan.data, 0) + 1
    /\ chan.pos < Len(chan.data)

\* The status line has an accepted version and a second token ended by a space.
HasCodeToken ==
    /\ HasVersionToken
    /\ BeforeSpace(WireLine(chan.data, chan.pos)) \in AcceptedVersions
    /\ HasByte(AfterSpace(WireLine(chan.data, chan.pos)), SP)

\* A decimal numeral: digits, after an optional plus sign.
NumeralDigits(tok) == IF tok # <<>> /\ Head(tok) = "+" THEN Tail(tok) ELSE tok

IsNumeral(tok) ==
    /\ NumeralDigits(tok) # <<>>
    /\ \A k \in 1..Len(NumeralDigits(tok)) : NumeralDigits(tok)[k] \in Digits

RECURSIVE DigitsValue(_)
\* The number a sequence of digits stands for, the last digit being the units.
DigitsValue(ds) ==
    IF ds = <<>> THEN 0
    ELSE 10 * DigitsValue(SubSeq(ds, 1, Len(ds) - 1)) + DigitVal(ds[Len(ds)])

\* C14: response returns as status_code the value of the second space-delimited
\* token of the status line and as status the rest of the line after it, and
\* fails with InvalidStatusCode whenever that token is not a decimal numeral of a
\* number from 0 to 65535.
C14_StatusCode ==
    [][(ReadsReply /\ HasCodeToken)
          => LET rest == AfterSpace(WireLine(chan.data, chan.pos))
                 code == BeforeSpace(rest)
             IN  IF IsNumeral(code) /\ DigitsValue(NumeralDigits(code)) <= 65535
                 THEN /\ last'.err # "InvalidStatusCode"
                      /\ last'.res = "Ok" =>
                            /\ resp'.status_code = DigitsValue(NumeralDigits(code))
                            /\ resp'.status = AfterSpace(rest)
                 ELSE /\ last'.res = "Err"
                      /\ last'.err = "InvalidStatusCode"]_vars

\* response has returned the largest status code, 65535, and the reason OK.
C14_Witness ==
    /\ last.op = "response"
    /\ last.res = "Ok"
    /\ resp.status_code = 65535
    /\ resp.status = <<"O", "K">>
    /\ SubSeq(chan.data, 10, 14) = <<"6", "5", "5", "3", "5">>

RECURSIVE WireHeaders(_, _)
\* The header lines of d after its first from bytes, up to the blank line.
WireHeaders(d, from) ==
    LET k == FirstCrlf(d, from) IN
    IF k = 0 \/ k = from + 1 THEN <<>>
    ELSE <<SubSeq(d, from + 1, k - 1)>> \o WireHeaders(d, k + 1)

RECURSIVE Kept(_, _)
\* The pairs of the lines the filter accepts, in the order of the lines: the
\* header named before the first space, and the text after it.
Kept(lines, filter) ==
    IF lines = <<>> THEN <<>>
    ELSE LET h == HeaderFrom(BeforeSpace(Head(lines))) IN
         (IF h.tag \in filter
          THEN <<[name |-> h, value |-> AfterSpace(Head(lines))]>>
          ELSE <<>>) \o Kept(Tail(lines), filter)

\* The number of bytes of d up to and including its status line.
AfterStatusLine(d, from) == FirstCrlf(d, from) + 1

RECURSIVE BlockEnd(_, _)
\* The number of bytes of d up to and including the first blank line met after
\* its first from bytes (the bytes of d if there is none).
BlockEnd(d, from) ==
    LET k == FirstCrlf(d, from) IN
    IF k = 0 THEN Len(d)
    ELSE IF k = from + 1 THEN k + 1
    ELSE BlockEnd(d, k + 1)

\* C16: after a successful response the channel stands at the first byte after
\* the blank line that ends the header block, and reading it to the end of the
\* stream gives the bytes that follow that blank line.
C16_BodyPosition ==
    [][(ReadsReply /\ last'.res = "Ok")
          => LET end == BlockEnd(chan.data, chan.pos) IN
             /\ chan'.pos = end
             /\ ReadToEnd(chan'.data, chan'.pos, BuffSize).str
                   = SubSeq(chan.data, end + 1, Len(chan.data))]_vars

\* response has stopped in front of a body that holds a blank line of its own.
C16_Witness ==
    /\ last.op = "response"
    /\ last.res = "Ok"
    /\ chan.pos < Len(chan.data)
    /\ SubSeq(chan.data, chan.pos + 1, Len(chan.data)) = <<"b", CR, LF, CR, LF, "d">>
    /\ Len(resp.headers) = 1

\* C20: what response consumes does not depend on the filter: with any other
\* filter the same call consumes the same bytes, ends in the same state with the
\* same error or the same status code and reason; only the stored headers vary.
C20_FilterIndependent ==
    [][ReadsReply
          => \A filter \in Filters :
                LET r == ReadResponse(chan.data, chan.pos, filter) IN
                /\ chan'.pos = r.pos
                /\ state' = (IF r.ok THEN "Done" ELSE "Error")
                /\ last'.err = r.err
                /\ r.ok => (/\ resp'.status_code = r.status_code
                            /\ resp'.status = r.status)]_vars

\* response has read two header lines and the blank line and stored nothing.
C20_Witness ==
    /\ last.op = "response"
    /\ last.res = "Ok"
    /\ resp.headers = <<>>
    /\ Len(WireHeaders(chan.data, AfterStatusLine(chan.data, 0))) = 2
    /\ chan.pos = BlockEnd(chan.data, 0)
    /\ chan.pos = Len(chan.data)

-----------------------------------------------------------------------------
(* The read primitives (SpecRead)                                          *)

\* The bytes of the channel from the position the last read started at.
RdRest == SubSeq(rd.data, rd.pos0 + 1, Len(rd.data))

\* The delimiter stands at index k of s.
DelimAt(s, k) ==
    /\ k + Len(rd.delim) - 1 <= Len(s)
    /\ SubSeq(s, k, k + Len(rd.delim) - 1) = rd.delim

HasDelim(s) == \E k \in 1..Len(s) : DelimAt(s, k)

\* The number of bytes before the first delimiter of s.
ContentLen(s) ==
    (CHOOSE k \in 1..Len(s) : DelimAt(s, k) /\ \A j \in 1..(k - 1) : ~DelimAt(s, j)) - 1

\* C7: when read_string_until succeeds it returns exactly the bytes before the
\* delimiter and has consumed them and the delimiter, and no byte more.
C7_ReadUntilExact ==
    (rd.out.op = "read_string_until" /\ rd.out.ok) =>
        LET n == Len(rd.out.str) IN
        /\ HasDelim(RdRest)
        /\ n = ContentLen(RdRest)
        /\ rd.out.str = SubSeq(RdRest, 1, n)
        /\ rd.pos = rd.pos0 + n + Len(rd.delim)

\* A second read has returned the segment that follows the first delimiter.
C7_Witness ==
    /\ rd.n = 2
    /\ rd.out.op = "read_string_until"
    /\ rd.out.ok
    /\ rd.pos0 > 0
    /\ Len(rd.out.str) > 0
    /\ rd.pos0 + Len(rd.out.str) + Len(rd.delim) = rd.pos

\* C8: unless recv itself fails with another error, read_string_until fails
\* with BufferFull when the content before the delimiter exceeds the buffer, and
\* with EndOfStream when the channel ends before the delimiter is read in full.
\* The loop stops at i = max_len without another
\* recv, so a channel that ends after exactly max_len bytes gives BufferFull.
C8_BufferFullOrEndOfStream ==
    (rd.out.op = "read_string_until" /\ rd.out.err # RecvError) =>
        /\ (HasDelim(RdRest) /\ ContentLen(RdRest) > rd.cap) => rd.out.err = "BufferFull"
        /\ ~HasDelim(RdRest) => rd.out.err = "EndOfStream"

\* s is content free of the delimiter's first byte, shorter than the buffer,
\* followed by a proper prefix of the delimiter and the end of the stream.
EndsInsideRead(s) ==
    \E c \in 0..Len(s) :
        /\ c < rd.cap
        /\ \A j \in 1..c : s[j] # rd.delim[1]
        /\ Len(s) - c < Len(rd.delim)
        /\ SubSeq(s, c + 1, Len(s)) = SubSeq(rd.delim, 1, Len(s) - c)

\* What read_string_until does guarantee of the two failures: BufferFull when the
\* content before the delimiter exceeds the buffer and none of the bytes that
\* fill the buffer is the delimiter's first byte; EndOfStream when the channel
\* ends before the delimiter is read in full, after fewer content bytes than the
\* buffer holds, none of them the delimiter's first byte.
C8_BufferFullOrEndOfStreamNoPartial ==
    (rd.out.op = "read_string_until" /\ rd.out.err # RecvError) =>
        /\ (/\ HasDelim(RdRest)
            /\ ContentLen(RdRest) > rd.cap
            /\ \A j \in 1..rd.cap : RdRest[j] # rd.delim[1]) => rd.out.err = "BufferFull"
        /\ EndsInsideRead(RdRest) => rd.out.err = "EndOfStream"

\* The channel has ended inside the delimiter, after some content.
C8_Witness ==
    /\ rd.out.op = "read_string_until"
    /\ rd.out.err = "EndOfStream"
    /\ rd.delim = CRLF
    /\ Len(RdRest) >= 2
    /\ RdRest[Len(RdRest)] = CR

\* The first n bytes of s are content the buffer takes as it is: none is the
\* delimiter's first byte and no recv fails.
PlainContent(s, n) ==
    /\ n <= Len(s)
    /\ \A j \in 1..n : s[j] # rd.delim[1] /\ s[j] # RecvErr

\* C17: read_string_until returns BufferFull only when a byte that is not the
\* delimiter's would have to be stored beyond the buffer's capacity; content of
\* at most the capacity, exactly the capacity included, followed by the full
\* delimiter is returned.
C17_BufferFullOnlyBeyondCapacity ==
    rd.out.op = "read_string_until" =>
        /\ rd.out.err = "BufferFull" =>
                /\ PlainContent(RdRest, rd.cap + 1)
        /\ (/\ HasDelim(RdRest)
            /\ ContentLen(RdRest) <= rd.cap
            /\ PlainContent(RdRest, ContentLen(RdRest))
            /\ Utf8Ok(SubSeq(RdRest, 1, ContentLen(RdRest))))
              => (rd.out.ok /\ rd.out.str = SubSeq(RdRest, 1, ContentLen(RdRest)))

\* C18: once read_string_until has read the delimiter's first byte, at a point
\* where the buffer still has room, the bytes that follow must complete the
\* delimiter: the first that differs makes the read fail with
\* InvalidDelimiterChar, nothing is returned, and the bytes of the partial match
\* and the differing byte are consumed, never handed back as data.
C18_BrokenDelimiter ==
    rd.out.op = "read_string_until" =>
        \A c \in 0..(rd.cap - 1) : \A j \in 1..(Len(rd.delim) - 1) :
            (/\ PlainContent(RdRest, c)
             /\ c + j + 1 <= Len(RdRest)
             /\ SubSeq(RdRest, c + 1, c + j) = SubSeq(rd.delim, 1, j)
             /\ RdRest[c + j + 1] # rd.delim[j + 1]
             /\ RdRest[c + j + 1] # RecvErr)
              => (/\ ~rd.out.ok
                  /\ rd.out.err = "InvalidDelimiterChar"
                  /\ rd.out.str = <<>>
                  /\ rd.pos = rd.pos0 + c + j + 1)

\* A CR after one byte of content was followed by a byte that is not LF.
C18_Witness ==
    /\ rd.out.op = "read_string_until"
    /\ rd.out.err = "InvalidDelimiterChar"
    /\ rd.delim = CRLF
    /\ Len(RdRest) >= 3
    /\ RdRest[1] = "a"
    /\ RdRest[2] = CR
    /\ RdRest[3] = "a"

\* The number of bytes read_to_end asks the channel for and gets: the smaller of
\* max_len and what the channel still holds.
Delivered == IF Len(RdRest) < rd.cap THEN Len(RdRest) ELSE rd.cap

\* C19: read_to_end consumes exactly n bytes, stores them in order and returns
\* Ok(n), n being the smaller of max_len and the number of bytes the channel
\* delivers before end-of-stream; end-of-stream is never returned as an error,
\* and another recv error met on the way is returned as it is.
C19_ReadToEnd ==
    rd.out.op = "read_to_end" =>
        IF \E k \in 1..Delivered : RdRest[k] = RecvErr
        THEN ~rd.out.ok /\ rd.out.err = RecvError
        ELSE /\ rd.out.ok
             /\ rd.out.str = SubSeq(RdRest, 1, Delivered)
             /\ rd.pos = rd.pos0 + Delivered

\* read_to_end has met the end of the stream with room left in the buffer and
\* has returned the bytes it had.
C19_Witness ==
    /\ rd.out.op = "read_to_end"
    /\ rd.out.ok
    /\ Len(rd.out.str) > 0
    /\ Len(rd.out.str) < rd.cap
    /\ rd.pos = Len(rd.data)

-----------------------------------------------------------------------------
(* The URL parser (SpecUrl)                                                *)

\* C9: for a well-formed URL scheme://host[:port][/path][#frag], each of port,
\* path and fragment present or absent, parse_url returns the host, the written
\* port or else the scheme's default, the written path or else "/", and no
\* component holds the fragment or the '#'.
C9_WellFormedUrl ==
    pu.out.done =>
        LET r == pu.out.r IN
        /\ r.ok
        /\ r.scheme = pu.scheme
        /\ r.host = pu.host
        /\ r.port = (IF pu.port = <<>> THEN DefaultPort(pu.scheme)
                     ELSE ParseU16(pu.port[1]).v)
        /\ r.path = (IF pu.path = <<>> THEN <<"/">> ELSE pu.path[1])
        /\ ~HasByte(r.scheme \o r.host \o r.path, "#")

-----------------------------------------------------------------------------
(* The URL parser on any input (SpecRaw)                                   *)

\* The first ':' of u is immediately followed by "//".
SchemeSlashSlash(u) ==
    /\ HasByte(u, ":")
    /\ FirstIdx(u, ":") + 2 <= Len(u)
    /\ u[FirstIdx(u, ":") + 1] = "/"
    /\ u[FirstIdx(u, ":") + 2] = "/"

\* C21: parse_url accepts only inputs whose first ':' is immediately followed
\* by "//": the host of an accepted input starts right after "scheme://", and an
\* input without ':' or without "//" right after it fails with
\* DelimiterNotFound.
C21_SchemeDelimiter ==
    pu.out.done =>
        LET u == pu.input
            r == pu.out.r
        IN  IF SchemeSlashSlash(u)
            THEN r.ok => (/\ r.scheme = SubSeq(u, 1, FirstIdx(u, ":") - 1)
                          /\ r.host = SubSeq(u, FirstIdx(u, ":") + 3,
                                             FirstIdx(u, ":") + 2 + Len(r.host)))
            ELSE ~r.ok /\ r.err = "DelimiterNotFound"

-----------------------------------------------------------------------------
(* The port of a URL (SpecPort)                                            *)

\* C22: with no port written parse_url returns 80 for http, 443 for https and 0
\* for any other scheme; with a port token written it returns the token's value
\* when the token is a decimal numeral of a number from 0 to 65535, and fails
\* with ParseIntError when the token is empty, not a numeral, or stands for a
\* larger number: the port is never a truncated or wrapped-around value.
C22_Port ==
    pu.out.done =>
        LET r == pu.out.r IN
        IF pu.port = <<>>
        THEN /\ r.ok
             /\ r.port = (IF pu.scheme = <<"h", "t", "t", "p">> THEN 80
                          ELSE IF pu.scheme = <<"h", "t", "t", "p", "s">> THEN 443
                          ELSE 0)
        ELSE IF IsNumeral(pu.port[1]) /\ DigitsValue(NumeralDigits(pu.port[1])) <= 65535
        THEN r.ok /\ r.port = DigitsValue(NumeralDigits(pu.port[1]))
        ELSE ~r.ok /\ r.err = "ParseIntError"

\* The port 65536, one more than a u16 holds, has been refused.
C22_Witness ==
    /\ pu.out.done
    /\ pu.port = <<<<"6", "5", "5", "3", "6">>>>
    /\ pu.path # <<>>
    /\ ~pu.out.r.ok
    /\ pu.out.r.err = "ParseIntError"

-----------------------------------------------------------------------------
(* The header vocabulary (SpecHdr)                                         *)

EightTokens == {TokConnection, TokContentLength, TokContentType, TokDate, TokEtag,
                TokHost, TokLastModified, TokServer}

\* C23: the vocabulary is bidirectional: the token as_string writes for each of
\* the eight well-known headers is converted back by From<String> to the same
\* variant, and Other(name) comes back as Other(name) for every name that is not
\* one of the eight tokens.
C23_RoundTrip ==
    (hv.step = 2 /\ (hv.header.tag = "Other" => hv.header.name \notin EightTokens))
        => hv.back = hv.header

-----------------------------------------------------------------------------
(* Termination of the reads (SpecRead, SpecResp)                           *)

\* C24: on a channel that delivers finitely many bytes and then EndOfStream,
\* read_string_until returns after at most capacity + len(delimiter) - 1 calls
\* of recv, each of which consumes one byte of the channel unless it is the one
\* that meets the end of the stream and ends the read; so every pass of the
\* header loop of response, which is one such read, consumes or returns.
C24_ReadUntilBounded ==
    rd.out.op = "read_string_until" =>
        /\ rd.out.recvs <= rd.cap + Len(rd.delim) - 1
        /\ rd.pos <= Len(rd.data)
        /\ rd.pos - rd.pos0 =
              (IF rd.out.err = "EndOfStream" THEN rd.out.recvs - 1 ELSE rd.out.recvs)
        /\ rd.out.ok => rd.pos > rd.pos0

\* A read has used every recv it may: one byte short of a full buffer, then the
\* two bytes of CR LF.
C24_Witness ==
    /\ rd.out.op = "read_string_until"
    /\ rd.out.ok
    /\ rd.delim = CRLF
    /\ rd.cap >= 2
    /\ Len(rd.out.str) = rd.cap - 1
    /\ rd.out.recvs = rd.cap + Len(rd.delim) - 1

\* Every call of response that reads the channel returns, in Done or in Error,
\* with the channel further on and within its data; a successful one has
\* consumed at least the status line and the blank line.
ResponseReturns ==
    [][ReadsReply
          => /\ state' \in {"Done", "Error"}
             /\ last'.res \in {"Ok", "Err"}
             /\ (last'.res = "Ok") <=> (state' = "Done")
             /\ chan.pos <= chan'.pos
             /\ chan'.pos <= Len(chan.data)
             /\ state' = "Done" => chan'.pos >= chan.pos + 4]_vars

-----------------------------------------------------------------------------
(* Short writes (SpecShort)                                                *)

\* C25: when open, headers, header, body or send returns success, the channel
\* has reported as sent every byte the call, and the calls of the exchange
\* before it, passed to it: no send that returned a count smaller than the
\* length it was given is followed by the client moving on.
C25_NoShortWrite ==
    (last.op \in {"open", "headers", "header", "body", "send"} /\ last.res = "Ok")
        => \A j \in 1..Len(chan.log) :
              chan.log[j].call = "send" => chan.log[j].sent = Len(chan.log[j].data)

====
